---- MODULE Spec2Model ----
(***************************************************************************)
(* A model of csim.c: a set-associative cache simulator with LRU           *)
(* replacement and write-back dirty-byte accounting, driven by main's      *)
(* trace loop.                                                             *)
(*                                                                         *)
(* Addresses, tags and set indices are 64-bit words.  A word is modelled   *)
(* as the set of its bit positions that are 1 (a subset of 0..63), so that *)
(* the shifts of main keep their 64-bit width.                             *)
(***************************************************************************)
EXTENDS Integers, Sequences, FiniteSets, TLC

\* ---------------------------------------------------------------- bounds
MaxS == 1        \* s ranges over 0..MaxS
MaxB == 1        \* b ranges over 0..MaxB
MaxE == 2        \* E ranges over 1..MaxE
MaxAddr == 4     \* trace addresses range over 0..MaxAddr
MaxTrace == 4    \* records read from the trace file

\* ------------------------------------------------------ program constants
WordBits == 64   \* width of unsigned long, the 64 of "64 - s"

VARIABLES
    pc,          \* position of main: "getopt", "setup", "loop", "exit"
    s, E, b,     \* main's option variables
    cache,       \* the Cache structure (NoCache before createCache)
    results,     \* the csim_stats_t record (NoResults before it is set up)
    op, addr,    \* the record last read by fscanf
    set, tag,    \* main's locals: the decomposition of addr
    nread,       \* number of records fscanf has delivered
    output,      \* what the program has printed
    exitStatus,  \* the process exit status, "running" before exit
    recency      \* history: per set, the distinct tags accessed, most recent first

vars == <<pc, s, E, b, cache, results, op, addr, set, tag, nread, output, exitStatus,
          recency>>

\* ------------------------------------------------------------ 64-bit words
\* x >> k on an unsigned long, 0 <= k < 64
Shr(x, k) == { i - k : i \in { j \in x : j >= k } }

\* x << k on an unsigned long, 0 <= k < 64: the bits shifted past bit 63 are lost
Shl(x, k) == { i + k : i \in { j \in x : j + k < WordBits } }

RECURSIVE Val(_)
\* the number a word stands for (used for words below 2^31 only)
Val(x) == IF x = {} THEN 0
          ELSE LET i == CHOOSE j \in x : TRUE IN 2^i + Val(x \ {i})

\* ------------------------------------------------------------- structures
newLine(dirtyBit, tagBit, lruCount) ==
    [dirtyBit |-> dirtyBit, tagBit |-> tagBit, lruCounter |-> lruCount]

newSet(capacity) ==
    [num |-> 0, capacity |-> capacity,
     lines |-> [i \in 0 .. capacity - 1 |-> newLine(0, {}, 0)]]

createCache(ss, EE) ==
    [s |-> 2^ss, E |-> EE, opCounter |-> 0,
     sets |-> [i \in 0 .. 2^ss - 1 |-> newSet(EE)]]

setEmpty(st) == st.num = 0

NoCache == [s |-> 0, E |-> 0, opCounter |-> 0, sets |-> <<>>]

ZeroResults ==
    [hits |-> 0, misses |-> 0, evictions |-> 0, dirty_bytes |-> 0, dirty_evictions |-> 0]

\* ---------------------------------------------------------------- indexLRU
RECURSIVE lruScan(_, _, _, _)
\* the for loop of indexLRU from position i on, with the running min and index
lruScan(st, i, min, index) ==
    IF i >= st.num THEN index
    ELSE IF min < 0 THEN lruScan(st, i + 1, st.lines[i].lruCounter, i)
    ELSE IF st.lines[i].lruCounter < min
         THEN lruScan(st, i + 1, st.lines[i].lruCounter, i)
         ELSE lruScan(st, i + 1, min, index)

\* a faulty indexLRU: the first line is always the victim
indexLRU_First(st) == 0

indexLRU(st) == lruScan(st, 0, -1, -1)

\* ---------------------------------------------------------------- addToSet
\* a faulty hitLine: a hit does not refresh lruCounter
hitLine_NoRefresh(acc, i, opCounter, dirtyBit, tagBit, bb) ==
    IF tagBit = acc.set.lines[i].tagBit
    THEN IF acc.set.lines[i].dirtyBit = 0 /\ dirtyBit > 0
         THEN [set |-> [acc.set EXCEPT !.lines[i].dirtyBit = dirtyBit],
               results |-> [acc.results EXCEPT !.dirty_bytes = @ + 2^bb],
               isIn |-> TRUE]
         ELSE [set |-> acc.set, results |-> acc.results, isIn |-> TRUE]
    ELSE acc

\* a faulty hitLine: the test "dirtyBit > 0" is missing, so a load of a clean
\* line is charged as well
hitLine_ChargeLoads(acc, i, opCounter, dirtyBit, tagBit, bb) ==
    IF tagBit = acc.set.lines[i].tagBit
    THEN IF acc.set.lines[i].dirtyBit = 0
         THEN [set |-> [acc.set EXCEPT !.lines[i].lruCounter = opCounter,
                                       !.lines[i].dirtyBit = dirtyBit],
               results |-> [acc.results EXCEPT !.dirty_bytes = @ + 2^bb],
               isIn |-> TRUE]
         ELSE [set |-> [acc.set EXCEPT !.lines[i].lruCounter = opCounter],
               results |-> acc.results,
               isIn |-> TRUE]
    ELSE acc

\* a faulty hitLine: the test "dirtyBit == 0" of the line is missing, so a
\* store to a dirty line is charged again
hitLine_StoreAlways(acc, i, opCounter, dirtyBit, tagBit, bb) ==
    IF tagBit = acc.set.lines[i].tagBit
    THEN IF dirtyBit > 0
         THEN [set |-> [acc.set EXCEPT !.lines[i].lruCounter = opCounter,
                                       !.lines[i].dirtyBit = dirtyBit],
               results |-> [acc.results EXCEPT !.dirty_bytes = @ + 2^bb],
               isIn |-> TRUE]
         ELSE [set |-> [acc.set EXCEPT !.lines[i].lruCounter = opCounter],
               results |-> acc.results,
               isIn |-> TRUE]
    ELSE acc

\* One iteration of the hit loop on line i.  acc = [set, results, isIn].
hitLine(acc, i, opCounter, dirtyBit, tagBit, bb) ==
    IF tagBit = acc.set.lines[i].tagBit
    THEN IF acc.set.lines[i].dirtyBit = 0 /\ dirtyBit > 0
         THEN [set |-> [acc.set EXCEPT !.lines[i].lruCounter = opCounter,
                                       !.lines[i].dirtyBit = dirtyBit],
               results |-> [acc.results EXCEPT !.dirty_bytes = @ + 2^bb],
               isIn |-> TRUE]
         ELSE [set |-> [acc.set EXCEPT !.lines[i].lruCounter = opCounter],
               results |-> acc.results,
               isIn |-> TRUE]
    ELSE acc

RECURSIVE hitScan(_, _, _, _, _, _)
\* the hit loop "for (int i = 0; i < set->num; i++)" from position i on
hitScan(acc, i, opCounter, dirtyBit, tagBit, bb) ==
    IF i >= acc.set.num THEN acc
    ELSE hitScan(hitLine(acc, i, opCounter, dirtyBit, tagBit, bb),
                 i + 1, opCounter, dirtyBit, tagBit, bb)

\* the dirty-byte charge of a newly written line
chargeDirty(res, dirtyBit, bb) ==
    IF dirtyBit > 0 THEN [res EXCEPT !.dirty_bytes = @ + 2^bb] ELSE res

\* a faulty addEmpty: the miss is not counted
addEmpty_NoMiss(res, st, opCounter, dirtyBit, tagBit, bb) ==
    [set |-> [st EXCEPT !.lines[0] = newLine(dirtyBit, tagBit, opCounter),
                        !.num = @ + 1],
     results |-> chargeDirty(res, dirtyBit, bb)]

\* a faulty addEmpty: the line is stamped with the counter after its increment
addEmpty_StampNext(res, st, opCounter, dirtyBit, tagBit, bb) ==
    [set |-> [st EXCEPT !.lines[0] = newLine(dirtyBit, tagBit, opCounter + 1),
                        !.num = @ + 1],
     results |-> chargeDirty([res EXCEPT !.misses = @ + 1], dirtyBit, bb)]

\* branch 1: no line of the set is in use
addEmpty(res, st, opCounter, dirtyBit, tagBit, bb) ==
    [set |-> [st EXCEPT !.lines[0] = newLine(dirtyBit, tagBit, opCounter),
                        !.num = @ + 1],
     results |-> chargeDirty([res EXCEPT !.misses = @ + 1], dirtyBit, bb)]

\* a faulty missSpace: the new line goes to position 0
missSpace_AtZero(res, st, opCounter, dirtyBit, tagBit, bb) ==
    [set |-> [st EXCEPT !.lines[0] = newLine(dirtyBit, tagBit, opCounter),
                        !.num = @ + 1],
     results |-> chargeDirty([res EXCEPT !.misses = @ + 1], dirtyBit, bb)]

\* a faulty missSpace: the new line is stamped 0 like the lines of newSet
missSpace_StampZero(res, st, opCounter, dirtyBit, tagBit, bb) ==
    [set |-> [st EXCEPT !.lines[st.num] = newLine(dirtyBit, tagBit, 0),
                        !.num = @ + 1],
     results |-> chargeDirty([res EXCEPT !.misses = @ + 1], dirtyBit, bb)]

\* a faulty missSpace: num is not incremented
missSpace_NoGrow(res, st, opCounter, dirtyBit, tagBit, bb) ==
    [set |-> [st EXCEPT !.lines[st.num] = newLine(dirtyBit, tagBit, opCounter)],
     results |-> chargeDirty([res EXCEPT !.misses = @ + 1], dirtyBit, bb)]

\* the miss of branch 2: the new line goes to position num
missSpace(res, st, opCounter, dirtyBit, tagBit, bb) ==
    [set |-> [st EXCEPT !.lines[st.num] = newLine(dirtyBit, tagBit, opCounter),
                        !.num = @ + 1],
     results |-> chargeDirty([res EXCEPT !.misses = @ + 1], dirtyBit, bb)]

\* a faulty addSpace: the hit loop is missing, every access is a miss
addSpace_NoHitCheck(res, st, opCounter, dirtyBit, tagBit, bb) ==
    missSpace(res, st, opCounter, dirtyBit, tagBit, bb)

\* branch 2: the set has space left
addSpace(res, st, opCounter, dirtyBit, tagBit, bb) ==
    LET scan == hitScan([set |-> st, results |-> res, isIn |-> FALSE],
                        0, opCounter, dirtyBit, tagBit, bb)
    IN  IF scan.isIn
        THEN [set |-> scan.set, results |-> [scan.results EXCEPT !.hits = @ + 1]]
        ELSE missSpace(scan.results, scan.set, opCounter, dirtyBit, tagBit, bb)

\* a faulty evictDirty: the victim's bytes stay in dirty_bytes
evictDirty_KeepBytes(res, st, evictIndex, bb) ==
    IF st.lines[evictIndex].dirtyBit > 0
    THEN [res EXCEPT !.dirty_evictions = @ + 2^bb]
    ELSE res

\* a faulty evictDirty: the eviction of a clean line is counted as well
evictDirty_CountClean(res, st, evictIndex, bb) ==
    IF st.lines[evictIndex].dirtyBit > 0
    THEN [res EXCEPT !.dirty_bytes = @ - 2^bb, !.dirty_evictions = @ + 2^bb]
    ELSE [res EXCEPT !.dirty_evictions = @ + 2^bb]

\* the dirty-byte accounting of an eviction whose victim is line evictIndex
evictDirty(res, st, evictIndex, bb) ==
    IF st.lines[evictIndex].dirtyBit > 0
    THEN [res EXCEPT !.dirty_bytes = @ - 2^bb, !.dirty_evictions = @ + 2^bb]
    ELSE res

\* a faulty missEvict: the eviction is not counted
missEvict_NoCount(res, st, opCounter, dirtyBit, tagBit, bb) ==
    LET evictIndex == indexLRU(st)
        counted == [res EXCEPT !.misses = @ + 1]
    IN  [set |-> [st EXCEPT !.lines[evictIndex] = newLine(dirtyBit, tagBit, opCounter)],
         results |-> chargeDirty(evictDirty(counted, st, evictIndex, bb), dirtyBit, bb)]

\* the miss of branch 3: the LRU line is overwritten
missEvict(res, st, opCounter, dirtyBit, tagBit, bb) ==
    LET evictIndex == indexLRU(st)
        counted == [res EXCEPT !.misses = @ + 1, !.evictions = @ + 1]
    IN  [set |-> [st EXCEPT !.lines[evictIndex] = newLine(dirtyBit, tagBit, opCounter)],
         results |-> chargeDirty(evictDirty(counted, st, evictIndex, bb), dirtyBit, bb)]

\* branch 3: the set is full
addFull(res, st, opCounter, dirtyBit, tagBit, bb) ==
    LET scan == hitScan([set |-> st, results |-> res, isIn |-> FALSE],
                        0, opCounter, dirtyBit, tagBit, bb)
    IN  IF scan.isIn
        THEN [set |-> scan.set, results |-> [scan.results EXCEPT !.hits = @ + 1]]
        ELSE missEvict(scan.results, scan.set, opCounter, dirtyBit, tagBit, bb)

\* a faulty hasSpace: a full set still counts as having space
hasSpace_OffByOne(st) == st.num <= st.capacity

\* has the set a free line ("set->num != set->capacity")
hasSpace(st) == st.num # st.capacity

\* a faulty addToSet: the access always goes to set 0
addToSet_SetZero(res, c, idx, dirtyBit, tagBit, bb) ==
    LET st == c.sets[0]
        r  == IF setEmpty(st) THEN addEmpty(res, st, c.opCounter, dirtyBit, tagBit, bb)
              ELSE IF hasSpace(st)
                   THEN addSpace(res, st, c.opCounter, dirtyBit, tagBit, bb)
                   ELSE addFull(res, st, c.opCounter, dirtyBit, tagBit, bb)
    IN  [results |-> r.results,
         cache |-> [c EXCEPT !.sets[0] = r.set, !.opCounter = @ + 1]]

\* a faulty addToSet: opCounter is not incremented
addToSet_NoTick(res, c, idx, dirtyBit, tagBit, bb) ==
    LET st == c.sets[idx]
        r  == IF setEmpty(st) THEN addEmpty(res, st, c.opCounter, dirtyBit, tagBit, bb)
              ELSE IF hasSpace(st)
                   THEN addSpace(res, st, c.opCounter, dirtyBit, tagBit, bb)
                   ELSE addFull(res, st, c.opCounter, dirtyBit, tagBit, bb)
    IN  [results |-> r.results,
         cache |-> [c EXCEPT !.sets[idx] = r.set]]

\* addToSet on set number idx of cache c: the new results and the new cache
addToSet(res, c, idx, dirtyBit, tagBit, bb) ==
    LET st == c.sets[idx]
        r  == IF setEmpty(st) THEN addEmpty(res, st, c.opCounter, dirtyBit, tagBit, bb)
              ELSE IF hasSpace(st)
                   THEN addSpace(res, st, c.opCounter, dirtyBit, tagBit, bb)
                   ELSE addFull(res, st, c.opCounter, dirtyBit, tagBit, bb)
    IN  [results |-> r.results,
         cache |-> [c EXCEPT !.sets[idx] = r.set, !.opCounter = @ + 1]]

\* -------------------------------------------------------------------- main
\* a faulty setOf: the shifts keep s + 1 bits
setOf_OffByOne(address, ss, bb) ==
    IF ss = 0 THEN {}
    ELSE Shr(Shl(Shr(address, bb), WordBits - ss - 1), WordBits - ss - 1)

\* the set index main computes for an address
setOf(address, ss, bb) ==
    IF ss = 0 THEN {}
    ELSE Shr(Shl(Shr(address, bb), WordBits - ss), WordBits - ss)

\* the tag main computes for an address
tagOf(address, ss, bb) == Shr(address, bb + ss)

\* the dirty bit main passes for an operation code
dirtyOf(o) == IF o = "S" THEN 1 ELSE 0

\* the operation codes of the trace format
LoadStore == {"L", "S"}

\* the trace format's codes and one code that is neither L nor S
AnyOp == {"L", "S", "M"}

\* the word "%lx" delivers for the number n
ToWord(n) == { i \in 0 .. 30 : (n \div 2^i) % 2 = 1 }

\* addresses of trace records
Addrs == { ToWord(n) : n \in 0 .. MaxAddr }

NoOp == "none"

\* the history of a set after an access to tag t: t moves to the front
Touch(order, t) == <<t>> \o SelectSeq(order, LAMBDA x : x # t)

Init ==
    /\ pc = "getopt"
    /\ s = 0 /\ E = 0 /\ b = 0
    /\ cache = NoCache
    /\ results = ZeroResults
    /\ op = NoOp /\ addr = {}
    /\ set = {} /\ tag = {}
    /\ nread = 0
    /\ output = <<>>
    /\ exitStatus = "running"
    /\ recency = <<>>

\* the getopt loop: the options are taken, or an unknown option ends the run
ParseArgs ==
    /\ pc = "getopt"
    /\ \/ /\ \E ss \in 0 .. MaxS, EE \in 1 .. MaxE, bb \in 0 .. MaxB :
                s' = ss /\ E' = EE /\ b' = bb
          /\ pc' = "setup"
          /\ UNCHANGED exitStatus
       \/ /\ pc' = "exit"
          /\ exitStatus' = 1
          /\ UNCHANGED <<s, E, b>>
    /\ UNCHANGED <<cache, results, op, addr, set, tag, nread, output, recency>>

\* results zeroed, the cache created, the trace file opened (or not)
Setup ==
    /\ pc = "setup"
    /\ results' = ZeroResults
    /\ cache' = createCache(s, E)
    /\ recency' = [i \in 0 .. 2^s - 1 |-> <<>>]
    /\ \/ /\ pc' = "loop"
          /\ UNCHANGED <<output, exitStatus>>
       \/ /\ pc' = "exit"
          /\ output' = Append(output, "Could not open trace file")
          /\ exitStatus' = 0
    /\ UNCHANGED <<s, E, b, op, addr, set, tag, nread>>

\* one iteration of the trace loop: a record with a code of codes is read and applied
Step(codes) ==
    /\ pc = "loop"
    /\ nread < MaxTrace
    /\ \E o \in codes, a \in Addrs :
          LET st == setOf(a, s, b)
              tg == tagOf(a, s, b)
              r  == addToSet(results, cache, Val(st), dirtyOf(o), tg, b)
          IN  /\ op' = o /\ addr' = a
              /\ set' = st /\ tag' = tg
              /\ results' = r.results
              /\ cache' = r.cache
              /\ recency' = [recency EXCEPT ![Val(st)] = Touch(@, tg)]
    /\ nread' = nread + 1
    /\ UNCHANGED <<pc, s, E, b, output, exitStatus>>

\* fscanf reaches the end of the file: the summary is printed and main returns
Finish ==
    /\ pc = "loop"
    /\ pc' = "exit"
    /\ output' = Append(output, "summary")
    /\ exitStatus' = 0
    /\ UNCHANGED <<s, E, b, cache, results, op, addr, set, tag, nread, recency>>

\* runs on traces of load and store records
Next == ParseArgs \/ Setup \/ Step(LoadStore) \/ Finish

Spec == Init /\ [][Next]_vars

\* main is one sequential thread that keeps running: a step that can be taken
\* is taken, and the trace file is finite
SpecFair == Init /\ [][Next]_vars /\ WF_vars(Next)

\* runs on traces that may hold records with another operation code
NextAnyOp == ParseArgs \/ Setup \/ Step(AnyOp) \/ Finish

SpecAnyOp == Init /\ [][NextAnyOp]_vars

\* ------------------------------------------------ runs with E = 0 as well
\* the getopt loop when -E is missing or 0: main's E is 0 and main goes on
ParseArgsAnyE ==
    /\ pc = "getopt"
    /\ \/ /\ \E ss \in 0 .. MaxS, EE \in 0 .. MaxE, bb \in 0 .. MaxB :
                s' = ss /\ E' = EE /\ b' = bb
          /\ pc' = "setup"
          /\ UNCHANGED exitStatus
       \/ /\ pc' = "exit"
          /\ exitStatus' = 1
          /\ UNCHANGED <<s, E, b>>
    /\ UNCHANGED <<cache, results, op, addr, set, tag, nread, output, recency>>

\* a set of capacity 0 with the memory behind its (empty) array of lines:
\* lines[0 .. num] lie outside the allocation and hold what was written there
overrun(st) ==
    [st EXCEPT !.lines = [i \in 0 .. st.num |->
                            IF i \in DOMAIN st.lines THEN st.lines[i]
                            ELSE newLine(0, {}, 0)]]

\* one iteration of the trace loop when E >= 1
StepInBounds(codes) == E >= 1 /\ Step(codes)

\* one iteration of the trace loop when E = 0: addToSet reads and writes
\* lines[num] outside the array, which is undefined: the process is killed
\* (status 139, SIGSEGV), or the accesses land in the memory behind the array
StepOverrun(codes) ==
    /\ pc = "loop"
    /\ E = 0
    /\ nread < MaxTrace
    /\ \E o \in codes, a \in Addrs :
          LET st == setOf(a, s, b)
              tg == tagOf(a, s, b)
              c  == [cache EXCEPT !.sets[Val(st)] = overrun(@)]
              r  == addToSet(results, c, Val(st), dirtyOf(o), tg, b)
          IN  /\ op' = o /\ addr' = a
              /\ set' = st /\ tag' = tg
              /\ \/ /\ results' = r.results
                    /\ cache' = r.cache
                    /\ recency' = [recency EXCEPT ![Val(st)] = Touch(@, tg)]
                    /\ UNCHANGED <<pc, exitStatus>>
                 \/ /\ pc' = "exit"
                    /\ exitStatus' = 139
                    /\ UNCHANGED <<results, cache, recency>>
    /\ nread' = nread + 1
    /\ UNCHANGED <<s, E, b, output>>

NextAnyE ==
    ParseArgsAnyE \/ Setup \/ StepInBounds(LoadStore) \/ StepOverrun(LoadStore) \/ Finish

SpecAnyE == Init /\ [][NextAnyE]_vars

\* ------------------------------------------- the decomposition on its own
\* bit positions at the borders of the offset, set-index and tag fields
ProbeBits(ss, bb) ==
    {0, bb - 1, bb, bb + ss - 1, bb + ss, WordBits - 1} \cap (0 .. WordBits - 1)

InitAddr ==
    /\ pc = "decomp"
    /\ s \in 0 .. WordBits - 1
    /\ b \in 0 .. WordBits - 1 - s
    /\ E = 0
    /\ cache = NoCache
    /\ results = ZeroResults
    /\ op = NoOp /\ addr = {}
    /\ set = {} /\ tag = {}
    /\ nread = 0
    /\ output = <<>>
    /\ exitStatus = "running"
    /\ recency = <<>>

\* the decomposition of one address read from the trace
Decompose ==
    /\ pc = "decomp"
    /\ \E a \in SUBSET ProbeBits(s, b) :
          /\ addr' = a
          /\ set' = setOf(a, s, b)
          /\ tag' = tagOf(a, s, b)
    /\ pc' = "decomposed"
    /\ UNCHANGED <<s, E, b, cache, results, op, nread, output, exitStatus, recency>>

SpecAddr == InitAddr /\ [][Decompose]_vars

\* ------------------------------------------------------------- vocabulary
\* positions of the in-use lines of a set
InUse(st) == 0 .. st.num - 1

\* tags of the in-use lines of a set
Resident(st) == { st.lines[i].tagBit : i \in InUse(st) }

\* the in-use dirty lines of the whole cache
DirtyLines ==
    { p \in UNION { {i} \X InUse(cache.sets[i]) : i \in DOMAIN cache.sets } :
        cache.sets[p[1]].lines[p[2]].dirtyBit > 0 }

\* this step applied one record to the cache
Accessed == nread' = nread + 1

\* the set the access of this step goes to, before and after the access
Target == cache.sets[Val(set')]
TargetAfter == cache'.sets[Val(set')]

\* the outcome of the access of this step, read off the statistics
IsHit == results'.hits = results.hits + 1 /\ results'.misses = results.misses
IsMiss == results'.hits = results.hits /\ results'.misses = results.misses + 1
IsEvict == results'.evictions = results.evictions + 1

\* C1: after every access dirty_bytes is 2^b times the number of in-use dirty
\* lines of the cache, and so never negative.
C1_DirtyBytesConserved ==
    /\ results.dirty_bytes = 2^b * Cardinality(DirtyLines)
    /\ results.dirty_bytes >= 0

\* a dirty line was evicted while another dirty line is resident
C1_Witness ==
    /\ results.dirty_evictions > 0
    /\ results.dirty_bytes > 0
    /\ b = 1

\* C2: every set has 0 <= num <= capacity = E.
C2_Capacity ==
    \A i \in DOMAIN cache.sets :
        /\ cache.sets[i].capacity = E
        /\ 0 <= cache.sets[i].num
        /\ cache.sets[i].num <= cache.sets[i].capacity

\* a full set has taken a further miss
C2_Witness ==
    /\ results.evictions > 0
    /\ \E i \in DOMAIN cache.sets : cache.sets[i].num = E /\ E = 2

\* C3: an access increments evictions exactly when, before it, the target set
\* is full and holds no in-use line with the tag; otherwise evictions is unchanged.
C3_EvictionIff ==
    [][Accessed =>
        LET fullMiss == Target.num = E /\ tag' \notin Resident(Target)
        IN  /\ IsEvict <=> fullMiss
            /\ ~fullMiss => results'.evictions = results.evictions]_vars

\* an eviction has happened, and so has a hit in a set of two lines
C3_Witness ==
    /\ results.evictions > 0
    /\ results.hits > 0
    /\ E = 2

\* the tags a reference LRU cache of capacity cap holds after the accesses of order
RefList(order, cap) ==
    SubSeq(order, 1, IF Len(order) < cap THEN Len(order) ELSE cap)

RefTags(order, cap) == { RefList(order, cap)[k] : k \in 1 .. Len(RefList(order, cap)) }

\* C4: outcome and resident tags agree with a reference LRU model: after every
\* access the resident tags of each set are the min(E, distinct tags seen) most
\* recently accessed distinct tags, and an access hits exactly when its tag is
\* among them.
C4_RefinesLRU ==
    [][Accessed =>
        LET before == recency[Val(set')]
        IN  /\ IsHit <=> tag' \in RefTags(before, E)
            /\ IsMiss <=> tag' \notin RefTags(before, E)
            /\ IsEvict <=> (tag' \notin RefTags(before, E) /\ Len(before) >= E)
            /\ ~IsEvict => results'.evictions = results.evictions
            /\ \A i \in DOMAIN cache'.sets :
                  /\ Resident(cache'.sets[i]) = RefTags(recency'[i], E)
                  /\ cache'.sets[i].num =
                        (IF Len(recency'[i]) < E THEN Len(recency'[i]) ELSE E)]_vars

\* a set of two lines has seen three tags, with a hit among the accesses
C4_Witness ==
    /\ E = 2
    /\ results.hits > 0
    /\ \E i \in DOMAIN recency : Len(recency[i]) >= 3

\* the lowest position among the in-use lines with the smallest lruCounter
LowestMin(st) ==
    CHOOSE i \in InUse(st) :
        /\ \A j \in InUse(st) : st.lines[i].lruCounter <= st.lines[j].lruCounter
        /\ \A j \in InUse(st) : j < i => st.lines[j].lruCounter > st.lines[i].lruCounter

\* C5: an eviction overwrites the lowest-index line among those with the smallest
\* lruCounter, and lruCounter is refreshed by hits as well as by fills, so the
\* victim is the least recently accessed line: in a set of two lines whose first
\* line was accessed after the second, a miss overwrites the second line.
C5_VictimIsLRU ==
    [][Accessed =>
        /\ IsEvict =>
              \A i \in InUse(Target) :
                  (TargetAfter.lines[i] # Target.lines[i]) <=> (i = LowestMin(Target))
        /\ \E i \in InUse(TargetAfter) :
              /\ TargetAfter.lines[i].tagBit = tag'
              /\ TargetAfter.lines[i].lruCounter = cache.opCounter
        /\ (/\ E = 2 /\ Target.num = 2
            /\ Target.lines[0].lruCounter > Target.lines[1].lruCounter
            /\ tag' \notin Resident(Target))
           => /\ TargetAfter.lines[0] = Target.lines[0]
              /\ TargetAfter.lines[1].tagBit = tag']_vars

\* the state after the accesses A, B, A, C to one set of two lines: A stayed
C5_Witness ==
    /\ s = 0 /\ E = 2 /\ nread = 4
    /\ results.hits = 1 /\ results.misses = 3 /\ results.evictions = 1
    /\ cache.sets[0].lines[0].lruCounter = 2
    /\ cache.sets[0].lines[1].lruCounter = 3

\* C6: no two in-use lines of one set hold the same tag.
C6_UniqueTags ==
    \A i \in DOMAIN cache.sets :
        \A j, k \in InUse(cache.sets[i]) :
            j # k => cache.sets[i].lines[j].tagBit # cache.sets[i].lines[k].tagBit

\* a set holds two lines and an access has hit
C6_Witness ==
    /\ results.hits > 0
    /\ \E i \in DOMAIN cache.sets : cache.sets[i].num = 2

\* C7: a load that repeats the load just before it is a hit that adds one to hits
\* and leaves the other four statistics alone; and a load of a tag that is not
\* resident is no hit, so such a pair yields exactly one hit.
C7_RepeatedLoad ==
    [][Accessed /\ op' = "L" =>
        /\ (op = "L" /\ set = set' /\ tag = tag') =>
              /\ results'.hits = results.hits + 1
              /\ results'.misses = results.misses
              /\ results'.evictions = results.evictions
              /\ results'.dirty_bytes = results.dirty_bytes
              /\ results'.dirty_evictions = results.dirty_evictions
        /\ tag' \notin Resident(Target) => results'.hits = results.hits]_vars

\* a load of a tag that was not resident, then the same load: one hit
C7_Witness ==
    /\ nread = 2 /\ op = "L"
    /\ results.hits = 1 /\ results.misses = 1
    /\ results.dirty_bytes = 0

\* two addresses lie in the same 2^bb-byte block
SameBlock(a1, a2, bb) == { i \in a1 : i >= bb } = { i \in a2 : i >= bb }

\* C8: tag = floor(address / 2^(b+s)); set_index = floor(address / 2^b) mod 2^s
\* (0 when s = 0), so set_index < 2^s; and two addresses get the same set index
\* and tag exactly when they lie in the same 2^b-byte block.
C8_Decomposition ==
    pc = "decomposed" =>
        /\ \A i \in 0 .. WordBits - 1 :
              /\ i \in tag <=> (i + b + s < WordBits /\ i + b + s \in addr)
              /\ i \in set <=> (i < s /\ i + b \in addr)
        /\ addr = { i + b + s : i \in tag } \cup { i + b : i \in set }
                      \cup { i \in addr : i < b }
        /\ (addr \subseteq 0 .. 30 /\ b + s <= 30) =>
              /\ Val(tag) = Val(addr) \div 2^(b + s)
              /\ Val(set) = (Val(addr) \div 2^b) % 2^s
              /\ Val(set) < 2^s
        /\ \A a2 \in SUBSET ProbeBits(s, b) :
              (setOf(a2, s, b) = set /\ tagOf(a2, s, b) = tag) <=> SameBlock(addr, a2, b)

\* a 62-bit set index: the top bit of the address is the top bit of the index
C8_Witness ==
    /\ pc = "decomposed"
    /\ s = 62 /\ b = 1
    /\ addr = {0, 1, 62, 63}
    /\ set = {0, 61} /\ tag = {0}

\* C9: a record whose operation code is neither L nor S changes neither the
\* cache (sets, lines, access counter) nor the statistics.
C9_OtherOpIgnored ==
    [][Accessed /\ op' \notin {"L", "S"} => UNCHANGED <<cache, results>>]_vars

\* the program has printed x
Printed(x) == \E k \in 1 .. Len(output) : output[k] = x

\* C10: when the trace file cannot be opened the program exits with a non-zero
\* status, having applied no access and printed no summary.
C10_OpenFailureExit ==
    (pc = "exit" /\ Printed("Could not open trace file")) =>
        /\ exitStatus # 0
        /\ nread = 0
        /\ cache.opCounter = 0
        /\ ~Printed("summary")

\* C11: a configuration with E <= 0 is rejected before any access reaches the
\* cache: no access is applied to a set of capacity 0, num never exceeds the
\* capacity and no line position outside 0 .. E-1 is written.
C11_BadConfigRejected ==
    /\ nread > 0 => E >= 1
    /\ \A i \in DOMAIN cache.sets :
          /\ cache.sets[i].num <= cache.sets[i].capacity
          /\ DOMAIN cache.sets[i].lines \subseteq 0 .. E - 1

\* C12: dirty_evictions changes only on a miss with eviction whose victim is
\* dirty; it then grows by 2^b while dirty_bytes loses 2^b (and gets 2^b back
\* when the access is a store); the eviction of a clean victim, and every
\* other access, leaves it unchanged.  So it stays a multiple of 2^b, at most
\* 2^b times the number of evictions.
C12_DirtyEvictions ==
    [][Accessed =>
        LET dirtyVictim == /\ Target.num = E
                           /\ tag' \notin Resident(Target)
                           /\ Target.lines[LowestMin(Target)].dirtyBit > 0
            back == IF op' = "S" THEN 2^b ELSE 0
        IN  /\ dirtyVictim =>
                  /\ IsEvict
                  /\ results'.dirty_evictions = results.dirty_evictions + 2^b
                  /\ results'.dirty_bytes = results.dirty_bytes - 2^b + back
            /\ ~dirtyVictim => results'.dirty_evictions = results.dirty_evictions
            /\ results'.dirty_evictions % 2^b = 0
            /\ results'.dirty_evictions <= 2^b * results'.evictions]_vars

\* one eviction of a dirty line and one of a clean line, with two-byte blocks
C12_Witness ==
    /\ b = 1
    /\ results.evictions = 2
    /\ results.dirty_evictions = 2

\* C13: hits, misses, evictions and dirty_evictions never decrease, and every
\* access adds exactly 1 to exactly one of hits and misses.
C13_CountersMonotone ==
    [][/\ results'.hits >= results.hits
       /\ results'.misses >= results.misses
       /\ results'.evictions >= results.evictions
       /\ results'.dirty_evictions >= results.dirty_evictions
       /\ Accessed => (IsHit \/ IsMiss)]_vars

\* all four counters have grown
C13_Witness ==
    /\ results.hits > 0
    /\ results.misses > 0
    /\ results.evictions > 0
    /\ results.dirty_evictions > 0

\* C14: every access adds exactly 1 to opCounter, and the line it touches (the
\* hit line, the filled line or the overwritten victim) gets lruCounter equal to
\* opCounter before the increment; the first access stamps 0.  No other step
\* changes opCounter.
C14_StampBeforeIncrement ==
    [][/\ Accessed =>
            /\ cache'.opCounter = cache.opCounter + 1
            /\ \E i \in InUse(TargetAfter) :
                  /\ TargetAfter.lines[i].tagBit = tag'
                  /\ TargetAfter.lines[i].lruCounter = cache.opCounter
            /\ \A i \in DOMAIN Target.lines :
                  TargetAfter.lines[i] # Target.lines[i] =>
                      TargetAfter.lines[i].lruCounter = cache.opCounter
            /\ nread = 0 =>
                  /\ cache.opCounter = 0
                  /\ TargetAfter.lines[0].lruCounter = 0
       /\ ~Accessed => cache'.opCounter = cache.opCounter]_vars

\* a fill, a hit and an eviction in a set of one line: the third access stamped 2
C14_Witness ==
    /\ E = 1 /\ nread = 3
    /\ results.hits = 1 /\ results.evictions = 1
    /\ cache.opCounter = 3
    /\ \E i \in DOMAIN cache.sets :
          cache.sets[i].num = 1 /\ cache.sets[i].lines[0].lruCounter = 2

\* C15: an access to set i changes at most one line of set i and its num, and
\* leaves every other set as it was; its outcome is decided by set i alone; and
\* with s = 1, E = 1, b = 0 the accesses L 0, S 1, L 0 are miss, miss, hit with
\* no eviction.
C15_OtherSetsUntouched ==
    [][Accessed =>
        /\ DOMAIN cache'.sets = DOMAIN cache.sets
        /\ \A j \in DOMAIN cache.sets : j # Val(set') => cache'.sets[j] = cache.sets[j]
        /\ TargetAfter.capacity = Target.capacity
        /\ DOMAIN TargetAfter.lines = DOMAIN Target.lines
        /\ Cardinality({ i \in DOMAIN Target.lines :
                            TargetAfter.lines[i] # Target.lines[i] }) <= 1
        /\ IsHit <=> tag' \in Resident(Target)
        /\ IsEvict <=> (tag' \notin Resident(Target) /\ Target.num = Target.capacity)
        /\ (/\ s = 1 /\ E = 1 /\ b = 0 /\ nread = 2
            /\ results.hits = 0 /\ results.misses = 2 /\ results.evictions = 0
            /\ cache.sets[0].num = 1 /\ cache.sets[1].num = 1
            /\ cache.sets[0].lines[0] = newLine(0, {}, 0)
            /\ cache.sets[1].lines[0] = newLine(1, {}, 1)
            /\ op' = "L" /\ addr' = {})
           => /\ IsHit
              /\ results'.evictions = 0]_vars

\* the state after L 0, S 1, L 0 with s = 1, E = 1, b = 0
C15_Witness ==
    /\ s = 1 /\ E = 1 /\ b = 0 /\ nread = 3
    /\ op = "L" /\ addr = {}
    /\ results = [hits |-> 1, misses |-> 2, evictions |-> 0,
                  dirty_bytes |-> 1, dirty_evictions |-> 0]
    /\ cache.sets[0].lines[0] = newLine(0, {}, 2)
    /\ cache.sets[1].lines[0] = newLine(1, {}, 1)

\* C16: on a hit a load leaves the dirty bit and dirty_bytes as they were, a
\* store to a clean line sets the bit and adds 2^b, a store to a dirty line
\* changes neither; a dirty bit is cleared only when a load's miss with eviction
\* overwrites the line.
C16_DirtyBitOnHit ==
    [][/\ Accessed =>
            \A i \in InUse(Target) :
                Target.lines[i].tagBit = tag' =>
                    LET was == Target.lines[i].dirtyBit > 0
                        store == op' = "S"
                    IN  /\ (TargetAfter.lines[i].dirtyBit > 0) <=> (was \/ store)
                        /\ results'.dirty_bytes =
                              results.dirty_bytes + (IF store /\ ~was THEN 2^b ELSE 0)
       /\ \A j \in DOMAIN cache.sets :
             \A i \in InUse(cache.sets[j]) :
                 (/\ cache.sets[j].lines[i].dirtyBit > 0
                  /\ cache'.sets[j].lines[i].dirtyBit = 0)
                 => /\ IsEvict
                    /\ op' = "L"
                    /\ j = Val(set')
                    /\ i = LowestMin(Target)]_vars

\* a store has hit, and the only dirty line holds two bytes
C16_Witness ==
    /\ b = 1 /\ nread = 2 /\ op = "S"
    /\ results.hits = 1 /\ results.misses = 1
    /\ results.dirty_bytes = 2

\* C17: a miss in a set with num < E puts the new line at position num, adds 1
\* to num and leaves the positions below alone; no eviction happens in a set
\* before its num has reached E; num never decreases, and stays E once it is E.
C17_FillLeftToRight ==
    [][/\ \A j \in DOMAIN cache.sets : cache'.sets[j].num >= cache.sets[j].num
       /\ Accessed =>
            /\ (IsMiss /\ Target.num < E) =>
                  /\ TargetAfter.num = Target.num + 1
                  /\ TargetAfter.lines[Target.num].tagBit = tag'
                  /\ \A i \in InUse(Target) : TargetAfter.lines[i] = Target.lines[i]
                  /\ results'.evictions = results.evictions
            /\ IsEvict => Target.num = E
            /\ Target.num = E => TargetAfter.num = E]_vars

\* a set of two lines was filled by two misses and then took an eviction
C17_Witness ==
    /\ E = 2 /\ results.hits = 0 /\ results.evictions = 1
    /\ \E i \in DOMAIN cache.sets : cache.sets[i].num = 2

\* the in-use lines of the cache, as pairs of set number and position
UsedLines == UNION { {i} \X InUse(cache.sets[i]) : i \in DOMAIN cache.sets }

\* C18: the in-use lines of the whole cache have pairwise distinct lruCounter
\* values, each below opCounter, so in a full set exactly one line has the
\* smallest lruCounter.
C18_StampsDistinct ==
    /\ \A p, q \in UsedLines :
          p # q => cache.sets[p[1]].lines[p[2]].lruCounter
                      # cache.sets[q[1]].lines[q[2]].lruCounter
    /\ \A p \in UsedLines :
          /\ cache.sets[p[1]].lines[p[2]].lruCounter >= 0
          /\ cache.sets[p[1]].lines[p[2]].lruCounter < cache.opCounter
    /\ \A j \in DOMAIN cache.sets :
          cache.sets[j].num = cache.sets[j].capacity =>
              Cardinality({ i \in InUse(cache.sets[j]) :
                  \A k \in InUse(cache.sets[j]) :
                      cache.sets[j].lines[i].lruCounter
                          <= cache.sets[j].lines[k].lruCounter }) = 1

\* two sets hold lines, one of them is full with two lines
C18_Witness ==
    /\ pc = "loop"
    /\ s = 1 /\ E = 2
    /\ cache.sets[0].num = 2
    /\ cache.sets[1].num >= 1

\* what is left of the run: the steps before the trace loop, the records of
\* the trace not yet read, and the return
Rank ==
    CASE pc = "getopt" -> MaxTrace + 3
      [] pc = "setup"  -> MaxTrace + 2
      [] pc = "loop"   -> MaxTrace - nread + 1
      [] pc = "exit"   -> 0

\* C19: the records of a finite trace are applied one at a time, in the order
\* read, each exactly once, and then the run ends: eventually main has
\* returned, and then opCounter is the number of records of the trace.
\* Termination is stated by a variant: until main has returned a step can be
\* taken, and every step lowers Rank, a natural number; under the fairness of
\* SpecFair the run therefore reaches pc = "exit".
C19_TraceRunsToEnd ==
    /\ [](pc # "exit" => ENABLED Next)
    /\ [][Rank' < Rank /\ Rank' >= 0]_vars
    /\ [](cache.opCounter = nread)
    /\ [][Accessed =>
            /\ cache'.opCounter = cache.opCounter + 1
            /\ set' = setOf(addr', s, b) /\ tag' = tagOf(addr', s, b)
            /\ tag' \in Resident(TargetAfter)
            /\ recency'[Val(set')][1] = tag']_vars

\* main has returned after a trace of MaxTrace records, all of them applied
C19_Witness ==
    /\ pc = "exit" /\ Printed("summary")
    /\ nread = MaxTrace
    /\ cache.opCounter = MaxTrace
    /\ results.hits + results.misses = MaxTrace

\* C20: hits + misses = opCounter, evictions <= misses, and misses - evictions
\* is the number of in-use lines of the cache (the sum of num over the sets).
C20_CounterBalance ==
    /\ results.hits + results.misses = cache.opCounter
    /\ results.evictions <= results.misses
    /\ results.misses - results.evictions = Cardinality(UsedLines)

\* hits and evictions have happened and both of two sets hold lines
C20_Witness ==
    /\ pc = "loop" /\ s = 1
    /\ results.hits > 0 /\ results.evictions > 0
    /\ cache.sets[0].num >= 1 /\ cache.sets[1].num >= 1

====
